---- MODULE Spec2Model ----
(***************************************************************************)
(* The worker of cocaine-worker-nodejs (src/src/main.cpp, the worker part  *)
(* from line 117 on): the upstream adapter upstream_t, the session table   *)
(* m_streams, the drain loop worker_t::process with its dispatch switch,   *)
(* the readiness callbacks on_event / on_check, the heartbeat emitter, the *)
(* disown watchdog and terminate.                                          *)
(*                                                                         *)
(* The sandbox (api::sandbox_t), the downstream handles it returns, the    *)
(* orchestrator and the channel transport are the environment: the sandbox *)
(* may return or throw, and the application behind it holds the output     *)
(* sink (the upstream adapter) and may call push, error or close on it,    *)
(* inside a sandbox call or from its own event-loop callbacks between two  *)
(* drain passes (the process is single threaded).                          *)
(***************************************************************************)
EXTENDS Integers, Sequences, FiniteSets, TLC

\* ------------------------------------------------------------------ bounds

\* Session ids the orchestrator uses.
NumSessions == 2
\* Messages the orchestrator sends in one run.
MaxMsgs == 3
\* Invoke messages among them (one upstream adapter is made per invoke).
MaxInvokes == 2
\* The event loop's clock stops advancing here.
MaxTime == 2
\* m_profile->heartbeat_timeout, in clock ticks.
HeartbeatTimeout == 2
\* defaults::io_bulk_size (a constant of cocaine-core), scaled down.
IoBulkSize == 2
\* Payload parts an unknown message may carry after its type tag.
MaxParts == 2

Sessions == 1..NumSessions

\* ------------------------------------------------------------- the messages

MsgTypes == {"heartbeat", "invoke", "chunk", "choke", "terminate", "unknown"}

\* What the sandbox or a downstream handle does with a call: return, throw a
\* std::exception (caught by catch(const std::exception&)), or throw
\* something else (caught by catch(...)).
Outcomes == {"ok", "std", "other"}

\* What the application does with the session's output sink during a sandbox
\* call.
AppOps == {"none", "push", "close", "error"}

NoMsg == [type |-> "none", sid |-> 0, ser |-> 0]

OutMsg(type, sid, code, msg) == [type |-> type, sid |-> sid, code |-> code, msg |-> msg]

\* e.what() in catch(const std::exception& e), the literal in catch(...).
FaultText(outcome) == IF outcome = "std" THEN "what" ELSE "unexpected exception"

VARIABLES
    m_loop,          \* "init", "running", "unlooped", "exited", "aborted", "crashed"
    pc,              \* "idle": the loop is between callbacks; "process": inside
                     \* worker_t::process; "return": a callback is returning
    counter,         \* process()'s local counter
    queue,           \* the channel's inbound messages, oldest first
    nsent,           \* messages the orchestrator has sent so far
    ndisp,           \* messages process() has received so far
    sent,            \* the messages the last step sent on the channel, in order
    m_streams,       \* session id -> index of its io pair's adapter, 0 if absent
    adapters,        \* the upstream_t objects, by creation order
    m_checker,       \* the prepare watcher is active
    fed,             \* a fed READ event on the channel's fd is pending
    fdEvent,         \* the channel's fd signalled readiness
    now,             \* the event loop's clock
    m_disown_timer,  \* [active, at]
    lastHb,          \* clock value at the last dispatched heartbeat, -1 if none
    calls,           \* the calls the last step made on adapters, sandbox, downstreams
    cur,             \* the message the last step received from the channel, or NoMsg
                     \* (sent, calls and cur are cleared when the callback returns)
    passBase,        \* inside a pass and until it has returned: ndisp at its start
    passQueued,      \* and the number of messages queued at its start
    more,            \* parts of the message received last that are still unread:
                     \* m_channel.more() is more > 0
    parts            \* the payload parts of the message the last step received
                     \* (cleared with cur)

vars == <<m_loop, pc, counter, queue, nsent, ndisp, sent, m_streams, adapters,
          m_checker, fed, fdEvent, now, m_disown_timer, lastHb, calls, cur,
          passBase, passQueued, more, parts>>


\* ------------------------------------------------------ the upstream adapter

\* A call on an object, as the last step made it: the adapter's index (0 for
\* the sandbox), the session, who called, the adapter's state before the
\* call, how the call ended and how many messages it sent.
Call(target, a, sid, op, by, before, res, n) ==
    [target |-> target, a |-> a, sid |-> sid, op |-> op, by |-> by,
     before |-> before, res |-> res, sent |-> n]

\* The result of a call on an adapter: the adapters and the messages sent
\* after it, "ok" or "closed" (cocaine::error_t("the stream has been closed")
\* thrown), and the call's record.
Result(ads, out, res, call) == [ads |-> ads, out |-> out, res |-> res, call |-> call]

\* upstream_t::upstream_t
NewAdapter(sid) == [id |-> sid, state |-> "open", app |-> FALSE]

\* upstream_t::send -> worker_t::send<Event>(m_id, ...)
send(ads, out, a, type, code, msg) == Append(out, OutMsg(type, ads[a].id, code, msg))

\* push without the switch on m_state: the chunk is sent whatever the state.
pushUnchecked(ads, out, a, by) ==
    Result(ads, send(ads, out, a, "chunk", "", ""), "ok",
           Call("up", a, ads[a].id, "push", by, ads[a].state, "ok", 1))

\* upstream_t::push
push(ads, out, a, by) ==
    IF ads[a].state = "open"
    THEN LET out1 == send(ads, out, a, "chunk", "", "")
         IN  Result(ads, out1, "ok",
                    Call("up", a, ads[a].id, "push", by, ads[a].state, "ok", 1))
    ELSE Result(ads, out, "closed",
                Call("up", a, ads[a].id, "push", by, ads[a].state, "closed", 0))

\* error() that sends the error message and leaves the choke out.
errorNoChoke(ads, out, a, code, msg, by) ==
    IF ads[a].state = "open"
    THEN LET ads1 == [ads EXCEPT ![a].state = "closed"]
             out1 == send(ads1, out, a, "error", code, msg)
         IN  Result(ads1, out1, "ok",
                    Call("up", a, ads[a].id, "error", by, ads[a].state, "ok", 1))
    ELSE Result(ads, out, "closed",
                Call("up", a, ads[a].id, "error", by, ads[a].state, "closed", 0))

\* upstream_t::error
error(ads, out, a, code, msg, by) ==
    IF ads[a].state = "open"
    THEN LET ads1 == [ads EXCEPT ![a].state = "closed"]
             out1 == send(ads1, out, a, "error", code, msg)
             out2 == send(ads1, out1, a, "choke", "", "")
         IN  Result(ads1, out2, "ok",
                    Call("up", a, ads[a].id, "error", by, ads[a].state, "ok", 2))
    ELSE Result(ads, out, "closed",
                Call("up", a, ads[a].id, "error", by, ads[a].state, "closed", 0))

\* upstream_t::close
close(ads, out, a, by) ==
    IF ads[a].state = "open"
    THEN LET ads1 == [ads EXCEPT ![a].state = "closed"]
             out1 == send(ads1, out, a, "choke", "", "")
         IN  Result(ads1, out1, "ok",
                    Call("up", a, ads[a].id, "close", by, ads[a].state, "ok", 1))
    ELSE Result(ads, out, "closed",
                Call("up", a, ads[a].id, "close", by, ads[a].state, "closed", 0))

\* A destructor that calls close() without looking at m_state.
DestroyAlwaysClose(ads, out, a) ==
    LET r == close(ads, out, a, "dtor")
    IN  [ads   |-> [r.ads EXCEPT ![a] = [id |-> ads[a].id, state |-> "dead", app |-> FALSE]],
         out   |-> r.out,
         calls |-> <<r.call>>]

\* upstream_t::~upstream_t, run when the last shared_ptr to the adapter goes:
\* close() if the adapter is not closed. The object is gone afterwards
\* ("dead"); calls holds the close() it made, if any.
Destroy(ads, out, a) ==
    LET r == IF ads[a].state # "closed"
             THEN close(ads, out, a, "dtor")
             ELSE Result(ads, out, "ok", <<>>)
    IN  [ads   |-> [r.ads EXCEPT ![a] = [id |-> ads[a].id, state |-> "dead", app |-> FALSE]],
         out   |-> r.out,
         calls |-> IF ads[a].state # "closed" THEN <<r.call>> ELSE <<>>]

\* A shared_ptr to adapter a is dropped; tableHolds says whether m_streams
\* still holds one. The adapter is destroyed when the application holds none
\* either.
Release(ads, out, a, tableHolds) ==
    IF tableHolds \/ ads[a].app
    THEN [ads |-> ads, out |-> out, calls |-> <<>>]
    ELSE Destroy(ads, out, a)

\* The application's use of its output sink (api::stream_t) during a sandbox
\* call, or from one of its own callbacks.
AppCall(ads, out, a, op) ==
    CASE op = "push"  -> push(ads, out, a, "app")
      [] op = "close" -> close(ads, out, a, "app")
      [] op = "error" -> error(ads, out, a, "app_error", "app", "app")

AppUse(ads, out, a, op) ==
    IF op = "none"
    THEN [ads |-> ads, out |-> out, calls |-> <<>>]
    ELSE LET r == AppCall(ads, out, a, op)
         IN  [ads |-> r.ads, out |-> r.out, calls |-> <<r.call>>]

Count(seq, type) == Cardinality({i \in DOMAIN seq : seq[i].type = type})


\* ------------------------------------------------------------ the channel

\* A chunk whose bytes are lost on the way to the downstream: an empty
\* string is forwarded.
BytesEmpty(m) == 0

\* std::string message of a chunk: the worker does not look into the bytes,
\* and every chunk message is taken to carry bytes of its own, named by the
\* message's serial number.
Bytes(m) == m.ser

\* The payload parts that follow the type tag in a message of a known type,
\* as the typed receives of process() name them: (session_id, event),
\* (session_id, message), (session_id), and none for heartbeat and terminate.
Parts(type) ==
    CASE type = "invoke" -> 2
      [] type = "chunk"  -> 2
      [] type = "choke"  -> 1
      [] OTHER           -> 0

\* A typed receive that names one argument fewer than the message has parts.
recvTypedShort(left, n) == left - (n - 1)

\* m_channel.recv<Event>(...) with n arguments: n parts are read, left - n
\* remain.
recvTyped(left, n) == left - n

\* The default case without the drop: the payload stays in the channel.
dropNothing(left) == left

\* m_channel.drop(): the unread parts of the message are discarded.
drop(left) == 0

\* ------------------------------------------------- the dispatcher's cases

\* What one case of process()'s switch leaves: the adapters, the messages
\* sent, the session table, the calls it made, and whether an exception
\* left the case (escaped), in which case it leaves process() too: nothing
\* between the switch and the event loop catches it.
Disp(ads, out, streams, cs, escaped) ==
    [ads |-> ads, out |-> out, streams |-> streams, calls |-> cs, escaped |-> escaped]

\* m_streams[session_id] = io: the entry of a present key is replaced.
emplaceOver(streams, s, a) == [streams EXCEPT ![s] = a]

\* m_streams.emplace(session_id, io): no insertion when the key is present.
emplace(streams, s, a) == IF streams[s] = 0 THEN [streams EXCEPT ![s] = a] ELSE streams

\* m_streams.clear() in place of erase(it).
eraseAll(streams, s) == [t \in Sessions |-> 0]

\* m_streams.erase(it)
erase(streams, s) == [streams EXCEPT ![s] = 0]

\* case event_traits<rpc::invoke>::id. a is the adapter made for the message;
\* op, outcome and keep are the sandbox's doing: what the application does
\* with the sink inside m_sandbox->invoke, how invoke ends, and whether the
\* application keeps its shared_ptr to the sink afterwards.
InvokeCase(ads0, out, streams, s, op, outcome, keep) ==
    LET a    == Len(ads0) + 1
        ads1 == Append(ads0, NewAdapter(s))
        u    == AppUse(ads1, out, a, op)
        adsK == [u.ads EXCEPT ![a].app = keep]
        sc   == Call("sandbox", a, s, "invoke", "worker", "", outcome, 0)
    IN  IF outcome = "ok"
        THEN LET streams1 == emplace(streams, s, a)
                 rel      == Release(adsK, u.out, a, streams1[s] = a)
             IN  Disp(rel.ads, rel.out, streams1, <<sc>> \o u.calls \o rel.calls, FALSE)
        ELSE LET e == error(adsK, u.out, a, "invocation_error", FaultText(outcome), "worker")
             IN  IF e.res = "closed"
                 THEN Disp(e.ads, e.out, streams, <<sc>> \o u.calls \o <<e.call>>, TRUE)
                 ELSE LET rel == Release(e.ads, e.out, a, FALSE)
                      IN  Disp(rel.ads, rel.out, streams,
                               <<sc>> \o u.calls \o <<e.call>> \o rel.calls, FALSE)

\* The chunk case with a missing session reported to the orchestrator as an
\* error, in place of the silent drop.
ChunkCaseStrict(ads, out, streams, s, message, op, outcome) ==
    Disp(ads, Append(out, OutMsg("error", s, "invocation_error", "no such session")),
         streams, <<>>, FALSE)

\* case event_traits<rpc::chunk>::id. message is the chunk's bytes; op and
\* outcome are the doing of it->second.downstream->push, whose record holds
\* the bytes it was given.
ChunkCase(ads, out, streams, s, message, op, outcome) ==
    LET a == streams[s]
    IN  IF a = 0
        THEN Disp(ads, out, streams, <<>>, FALSE)
        ELSE LET u  == AppUse(ads, out, a, op)
                 dc == Call("down", a, s, "push", "worker", "", outcome, 0)
                          @@ [data |-> message]
             IN  IF outcome = "ok"
                 THEN Disp(u.ads, u.out, streams, <<dc>> \o u.calls, FALSE)
                 ELSE LET e == error(u.ads, u.out, a, "invocation_error",
                                     FaultText(outcome), "worker")
                      IN  IF e.res = "closed"
                          THEN Disp(e.ads, e.out, streams,
                                    <<dc>> \o u.calls \o <<e.call>>, TRUE)
                          ELSE LET rel == Release(e.ads, e.out, a, FALSE)
                               IN  Disp(rel.ads, rel.out, erase(streams, s),
                                        <<dc>> \o u.calls \o <<e.call>> \o rel.calls, FALSE)

\* case event_traits<rpc::choke>::id. op and outcome are the doing of
\* it->second.downstream->close.
ChokeCase(ads, out, streams, s, op, outcome) ==
    LET a == streams[s]
    IN  IF a = 0
        THEN Disp(ads, out, streams, <<>>, FALSE)
        ELSE LET u  == AppUse(ads, out, a, op)
                 dc == Call("down", a, s, "close", "worker", "", outcome, 0)
             IN  IF outcome = "ok"
                 THEN LET rel == Release(u.ads, u.out, a, FALSE)
                      IN  Disp(rel.ads, rel.out, erase(streams, s),
                               <<dc>> \o u.calls \o rel.calls, FALSE)
                 ELSE LET e == error(u.ads, u.out, a, "invocation_error",
                                     FaultText(outcome), "worker")
                      IN  IF e.res = "closed"
                          THEN Disp(e.ads, e.out, streams,
                                    <<dc>> \o u.calls \o <<e.call>>, TRUE)
                          ELSE LET rel == Release(e.ads, e.out, a, FALSE)
                               IN  Disp(rel.ads, rel.out, erase(streams, s),
                                        <<dc>> \o u.calls \o <<e.call>> \o rel.calls, FALSE)

\* The heartbeat case without m_disown_timer.stop(): start() on a timer that
\* is already active leaves its deadline alone.
HeartbeatCaseNoStop(timer, t) ==
    IF timer.active THEN timer ELSE [active |-> TRUE, at |-> t + HeartbeatTimeout]

\* case event_traits<rpc::heartbeat>::id: m_disown_timer.stop(), then
\* start(m_profile->heartbeat_timeout).
HeartbeatCase(timer, t) == [active |-> TRUE, at |-> t + HeartbeatTimeout]

\* What the application may do with the sink of the session's io pair during
\* a downstream call: it needs a shared_ptr to it.
SinkOps(ads, streams, s) ==
    IF streams[s] # 0 /\ ads[streams[s]].app THEN AppOps ELSE {"none"}

\* ------------------------------------------------------------- the worker

Init ==
    /\ m_loop = "init"
    /\ pc = "idle"
    /\ counter = 0
    /\ queue = <<>>
    /\ nsent = 0
    /\ ndisp = 0
    /\ sent = <<>>
    /\ m_streams = [s \in Sessions |-> 0]
    /\ adapters = <<>>
    /\ m_checker = FALSE
    /\ fed = FALSE
    /\ fdEvent = FALSE
    /\ now = 0
    /\ m_disown_timer = [active |-> FALSE, at |-> 0]
    /\ lastHb = -1
    /\ calls = <<>>
    /\ cur = NoMsg
    /\ passBase = 0
    /\ passQueued = 0
    /\ more = 0
    /\ parts = 0

\* worker_t::terminate: the suicide message, then m_loop.unloop(ev::ALL).
terminate(out, reason, msg) == Append(out, OutMsg("suicide", 0, reason, msg))

\* terminate() and on_disown without the call of unloop.
unloopNever(l) == l

\* m_loop.unloop(ev::ALL): the loop returns once the callbacks of its current
\* iteration are done.
unloop(l) == IF l = "running" THEN "unlooped" ELSE l

\* The constructor with the disown timer started before the try block, next
\* to the other watchers.
StartupArmsFirst ==
    /\ m_loop = "init"
    /\ m_disown_timer' = [active |-> TRUE, at |-> now + HeartbeatTimeout]
    /\ \E outcome \in Outcomes :
          IF outcome = "ok"
          THEN /\ m_loop' = "running"
               /\ m_checker' = TRUE
               /\ sent' = <<>>
          ELSE /\ m_loop' = "aborted"
               /\ sent' = terminate(<<>>, "abnormal", FaultText(outcome))
               /\ UNCHANGED m_checker
    /\ calls' = <<>>
    /\ cur' = NoMsg
    /\ parts' = 0
    /\ UNCHANGED more
    /\ UNCHANGED <<pc, counter, queue, nsent, ndisp, m_streams, adapters, fed, fdEvent,
                   now, lastHb, passBase, passQueued>>

\* worker_t::worker_t, then worker_t::run from main. The watchers and the
\* checker are started; loading the manifest, the profile or the sandbox may
\* throw, and then terminate(abnormal, ...) is called and the exception
\* rethrown: main returns EXIT_FAILURE without running the loop.
Startup ==
    /\ m_loop = "init"
    /\ \E outcome \in Outcomes :
          IF outcome = "ok"
          THEN /\ m_loop' = "running"
               /\ m_disown_timer' = [active |-> TRUE, at |-> now + HeartbeatTimeout]
               /\ m_checker' = TRUE
               /\ sent' = <<>>
          ELSE /\ m_loop' = "aborted"
               /\ sent' = terminate(<<>>, "abnormal", FaultText(outcome))
               /\ UNCHANGED <<m_disown_timer, m_checker>>
    /\ calls' = <<>>
    /\ UNCHANGED <<pc, counter, queue, nsent, ndisp, m_streams, adapters, fed, fdEvent,
                   now, lastHb>>
    /\ cur' = NoMsg
    /\ parts' = 0
    /\ UNCHANGED more
    /\ UNCHANGED <<passBase, passQueued>>

Alive == m_loop \in {"running", "unlooped"}

InvokesSent == Len(adapters) + Count(queue, "invoke")

\* Session ids are opaque tokens, compared for equality only: the orchestrator
\* is taken to number its sessions in the order it first names them.
SeenIds == {adapters[a].id : a \in DOMAIN adapters} \cup {queue[i].sid : i \in DOMAIN queue}
FreshId == IF \E s \in Sessions : s \notin SeenIds
           THEN CHOOSE s \in Sessions : s \notin SeenIds /\ \A t \in Sessions : t < s => t \in SeenIds
           ELSE NumSessions

\* The orchestrator sends a message of one of the given types, at most bound
\* in a run. The channel's fd is edge triggered: it signals readiness when
\* the message arrives at an empty queue.
Send(types, bound) ==
    /\ Alive
    /\ pc # "return"
    /\ nsent < bound
    /\ \E type \in types, s \in Sessions :
          /\ type \in {"heartbeat", "terminate", "unknown"} => s = 1
          /\ type = "invoke" => InvokesSent < MaxInvokes
          /\ type \in {"invoke", "chunk", "choke"} => s <= FreshId
          /\ queue' = Append(queue,
                [type |-> type,
                 sid  |-> IF type \in {"invoke", "chunk", "choke"} THEN s ELSE 0,
                 ser  |-> nsent + 1])
    /\ nsent' = nsent + 1
    /\ fdEvent' = (fdEvent \/ queue = <<>>)
    /\ calls' = <<>>
    /\ sent' = <<>>
    /\ UNCHANGED <<m_loop, pc, counter, ndisp, m_streams, adapters, m_checker,
                   fed, now, m_disown_timer, lastHb>>
    /\ cur' = NoMsg
    /\ parts' = 0
    /\ UNCHANGED more
    /\ UNCHANGED <<passBase, passQueued>>

\* Any message, at any time.
Enqueue == Send(MsgTypes, MaxMsgs)

\* The messages of sessions only, between two drain passes.
EnqueueSession == pc = "idle" /\ Send({"invoke", "chunk", "choke"}, MaxMsgs)

\* Any message, sent once the worker has taken the one before off the channel
\* and its drain pass has returned.
EnqueueNext == pc = "idle" /\ queue = <<>> /\ Send(MsgTypes, MaxMsgs)

\* Messages that start no invocation, at any time.
EnqueueControl == Send({"heartbeat", "chunk", "terminate", "unknown"}, MaxMsgs)

\* worker_t::on_check, the prepare watcher: runs before the loop polls, while
\* m_checker is active.
on_check ==
    /\ m_loop = "running"
    /\ pc = "idle"
    /\ m_checker
    /\ ~fed
    /\ fed' = TRUE
    /\ calls' = <<>>
    /\ sent' = <<>>
    /\ UNCHANGED <<m_loop, pc, counter, queue, nsent, ndisp, m_streams,
                   adapters, m_checker, fdEvent, now, m_disown_timer, lastHb>>
    /\ cur' = NoMsg
    /\ parts' = 0
    /\ UNCHANGED more
    /\ UNCHANGED <<passBase, passQueued>>

\* m_channel.pending()
pending == queue # <<>>

\* worker_t::on_event, up to the call of process(). A fed event is invoked
\* by the loop iteration that holds it, also after unloop().
on_event ==
    /\ pc = "idle"
    /\ \/ m_loop = "running" /\ (fed \/ fdEvent)
       \/ m_loop = "unlooped" /\ fed
    /\ fed' = FALSE
    /\ fdEvent' = FALSE
    /\ IF pending
       THEN /\ m_checker' = TRUE
            /\ pc' = "process"
            /\ counter' = IoBulkSize
            /\ passBase' = ndisp
            /\ passQueued' = Len(queue)
       ELSE /\ m_checker' = FALSE
            /\ UNCHANGED <<pc, counter, passBase, passQueued>>
    /\ calls' = <<>>
    /\ sent' = <<>>
    /\ UNCHANGED <<m_loop, queue, nsent, ndisp, m_streams, adapters, now,
                   m_disown_timer, lastHb>>
    /\ cur' = NoMsg
    /\ parts' = 0
    /\ UNCHANGED more

\* The event loop returns from run() once unloop() was called and the
\* callbacks of the iteration are done.
LoopExit ==
    /\ m_loop = "unlooped"
    /\ pc = "idle"
    /\ ~fed
    /\ m_loop' = "exited"
    /\ calls' = <<>>
    /\ sent' = <<>>
    /\ UNCHANGED <<pc, counter, queue, nsent, ndisp, m_streams, adapters,
                   m_checker, fed, fdEvent, now, m_disown_timer, lastHb>>
    /\ cur' = NoMsg
    /\ parts' = 0
    /\ UNCHANGED more
    /\ UNCHANGED <<passBase, passQueued>>

\* process(): m_channel.recv(message_id) finds nothing, return.
RecvNone ==
    /\ pc = "process"
    /\ Alive
    /\ queue = <<>>
    /\ pc' = "return"
    /\ calls' = <<>>
    /\ sent' = <<>>
    /\ UNCHANGED <<m_loop, counter, queue, nsent, ndisp, m_streams, adapters,
                   m_checker, fed, fdEvent, now, m_disown_timer, lastHb>>
    /\ cur' = NoMsg
    /\ parts' = 0
    /\ UNCHANGED more
    /\ UNCHANGED <<passBase, passQueued>>

\* A receive that looks at the head of the channel and leaves it there.
RecvPeek(type) ==
    /\ pc = "process"
    /\ Alive
    /\ queue # <<>>
    /\ Head(queue).type = type
    /\ queue' = queue
    /\ ndisp' = ndisp + 1
    /\ cur' = Head(queue)
    /\ UNCHANGED <<passBase, passQueued>>

\* process(): m_channel.recv(message_id) yields a message of this type.
Recv(type) ==
    /\ pc = "process"
    /\ Alive
    /\ queue # <<>>
    /\ Head(queue).type = type
    /\ queue' = Tail(queue)
    /\ ndisp' = ndisp + 1
    /\ cur' = Head(queue)
    /\ UNCHANGED <<passBase, passQueued>>

\* The loop condition written while(counter--).
EndIterationPostDecrement ==
    /\ counter' = counter - 1
    /\ IF counter = 0
       THEN pc' = "return" /\ fed' = TRUE
       ELSE pc' = "process" /\ fed' = fed

\* process(): while(--counter), and m_loop.feed_fd_event after the loop.
EndIteration ==
    /\ counter' = counter - 1
    /\ IF counter - 1 = 0
       THEN pc' = "return" /\ fed' = TRUE
       ELSE pc' = "process" /\ fed' = fed

\* A case of the switch ends: normally, or by an exception that leaves
\* process(), on_event and the event loop's C frames and ends the process.
EndCase(d) ==
    /\ adapters' = d.ads
    /\ sent' = d.out
    /\ m_streams' = d.streams
    /\ calls' = d.calls
    /\ IF d.escaped
       THEN m_loop' = "crashed" /\ UNCHANGED <<pc, counter, fed>>
       ELSE EndIteration /\ UNCHANGED m_loop

DispatchHeartbeat ==
    /\ Recv("heartbeat")
    /\ m_disown_timer' = HeartbeatCase(m_disown_timer, now)
    /\ lastHb' = now
    /\ EndIteration
    /\ parts' = Parts("heartbeat")
    /\ more' = parts'
    /\ calls' = <<>>
    /\ sent' = <<>>
    /\ UNCHANGED <<m_loop, nsent, m_streams, adapters, m_checker, fdEvent, now>>

DispatchInvoke ==
    /\ Recv("invoke")
    /\ parts' = Parts("invoke")
    /\ more' = recvTyped(parts', 2)
    /\ \E op \in AppOps, outcome \in Outcomes, keep \in BOOLEAN :
          EndCase(InvokeCase(adapters, <<>>, m_streams, Head(queue).sid,
                             op, outcome, keep))
    /\ UNCHANGED <<nsent, m_checker, fdEvent, now, m_disown_timer, lastHb>>

DispatchChunk ==
    /\ Recv("chunk")
    /\ parts' = Parts("chunk")
    /\ more' = recvTyped(parts', 2)
    /\ \E op \in SinkOps(adapters, m_streams, Head(queue).sid),
          outcome \in Outcomes :
          EndCase(ChunkCase(adapters, <<>>, m_streams, Head(queue).sid,
                            Bytes(Head(queue)), op, outcome))
    /\ UNCHANGED <<nsent, m_checker, fdEvent, now, m_disown_timer, lastHb>>

DispatchChoke ==
    /\ Recv("choke")
    /\ parts' = Parts("choke")
    /\ more' = recvTyped(parts', 1)
    /\ \E op \in SinkOps(adapters, m_streams, Head(queue).sid),
          outcome \in Outcomes :
          EndCase(ChokeCase(adapters, <<>>, m_streams, Head(queue).sid, op, outcome))
    /\ UNCHANGED <<nsent, m_checker, fdEvent, now, m_disown_timer, lastHb>>

DispatchTerminate ==
    /\ Recv("terminate")
    /\ parts' = Parts("terminate")
    /\ more' = parts'
    /\ sent' = terminate(<<>>, "normal", "per request")
    /\ m_loop' = unloop(m_loop)
    /\ EndIteration
    /\ calls' = <<>>
    /\ UNCHANGED <<nsent, m_streams, adapters, m_checker, fdEvent, now, m_disown_timer,
                   lastHb>>

\* default: m_channel.drop()
DispatchUnknown ==
    /\ Recv("unknown")
    /\ parts' \in 0..MaxParts
    /\ more' = drop(parts')
    /\ EndIteration
    /\ calls' = <<>>
    /\ sent' = <<>>
    /\ UNCHANGED <<m_loop, nsent, m_streams, adapters, m_checker, fdEvent, now,
                   m_disown_timer, lastHb>>

\* worker_t::on_heartbeat, every 5 s from the start of the loop.
on_heartbeat ==
    /\ m_loop = "running"
    /\ pc = "idle"
    /\ sent' = <<OutMsg("heartbeat", 0, "", "")>>
    /\ calls' = <<>>
    /\ pc' = "return"
    /\ UNCHANGED <<m_loop, counter, queue, nsent, ndisp, m_streams, adapters,
                   m_checker, fed, fdEvent, now, m_disown_timer, lastHb>>
    /\ cur' = NoMsg
    /\ parts' = 0
    /\ UNCHANGED more
    /\ UNCHANGED <<passBase, passQueued>>

\* worker_t::on_disown: the timer ran out.
on_disown ==
    /\ m_loop = "running"
    /\ pc = "idle"
    /\ m_disown_timer.active
    /\ now >= m_disown_timer.at
    /\ m_loop' = unloop(m_loop)
    /\ m_disown_timer' = [m_disown_timer EXCEPT !.active = FALSE]
    /\ calls' = <<>>
    /\ sent' = <<>>
    /\ UNCHANGED <<pc, counter, queue, nsent, ndisp, m_streams, adapters,
                   m_checker, fed, fdEvent, now, lastHb>>
    /\ cur' = NoMsg
    /\ parts' = 0
    /\ UNCHANGED more
    /\ UNCHANGED <<passBase, passQueued>>

\* The event loop's clock advances between callbacks.
Tick ==
    /\ m_loop = "running"
    /\ pc = "idle"
    /\ now < MaxTime
    /\ now' = now + 1
    /\ calls' = <<>>
    /\ sent' = <<>>
    /\ UNCHANGED <<m_loop, pc, counter, queue, nsent, ndisp, m_streams,
                   adapters, m_checker, fed, fdEvent, m_disown_timer, lastHb>>
    /\ cur' = NoMsg
    /\ parts' = 0
    /\ UNCHANGED more
    /\ UNCHANGED <<passBase, passQueued>>

\* The application, from one of its own callbacks, uses a sink it holds.
AppSink ==
    /\ m_loop = "running"
    /\ pc = "idle"
    /\ \E a \in DOMAIN adapters, op \in AppOps \ {"none"} :
          /\ adapters[a].app
          /\ LET u == AppUse(adapters, <<>>, a, op)
             IN  /\ adapters' = u.ads
                 /\ sent' = u.out
                 /\ calls' = u.calls
    /\ pc' = "return"
    /\ UNCHANGED <<m_loop, counter, queue, nsent, ndisp, m_streams, m_checker, fed,
                   fdEvent, now, m_disown_timer, lastHb>>
    /\ cur' = NoMsg
    /\ parts' = 0
    /\ UNCHANGED more
    /\ UNCHANGED <<passBase, passQueued>>

\* The application drops its shared_ptr to a sink.
AppRelease ==
    /\ m_loop = "running"
    /\ pc = "idle"
    /\ \E a \in DOMAIN adapters :
          /\ adapters[a].app
          /\ LET ads1 == [adapters EXCEPT ![a].app = FALSE]
                 rel  == Release(ads1, <<>>, a, m_streams[adapters[a].id] = a)
             IN  /\ adapters' = rel.ads
                 /\ sent' = rel.out
                 /\ calls' = rel.calls
    /\ pc' = "return"
    /\ UNCHANGED <<m_loop, counter, queue, nsent, ndisp, m_streams, m_checker, fed,
                   fdEvent, now, m_disown_timer, lastHb>>
    /\ cur' = NoMsg
    /\ parts' = 0
    /\ UNCHANGED more
    /\ UNCHANGED <<passBase, passQueued>>

\* The callback has returned to the event loop.
Return ==
    /\ pc = "return"
    /\ pc' = "idle"
    /\ calls' = <<>>
    /\ sent' = <<>>
    /\ UNCHANGED <<m_loop, counter, queue, nsent, ndisp, m_streams, adapters, m_checker,
                   fed, fdEvent, now, m_disown_timer, lastHb>>
    /\ cur' = NoMsg
    /\ parts' = 0
    /\ UNCHANGED more
    /\ passBase' = 0
    /\ passQueued' = 0

Next ==
    \/ Startup
    \/ Enqueue
    \/ on_check
    \/ on_event
    \/ LoopExit
    \/ Return
    \/ RecvNone
    \/ DispatchHeartbeat
    \/ DispatchInvoke
    \/ DispatchChunk
    \/ DispatchChoke
    \/ DispatchTerminate
    \/ DispatchUnknown
    \/ on_heartbeat
    \/ on_disown
    \/ Tick
    \/ AppSink
    \/ AppRelease

Spec == Init /\ [][Next]_vars

\* The sessions alone: the orchestrator sends invoke, chunk and choke, the
\* clock stands still.
NextSession ==
    \/ Startup
    \/ EnqueueSession
    \/ on_check
    \/ on_event
    \/ Return
    \/ RecvNone
    \/ DispatchInvoke
    \/ DispatchChunk
    \/ DispatchChoke
    \/ AppSink
    \/ AppRelease

SessionSpec == Init /\ [][NextSession]_vars

\* The drain loop and the timers alone: no invocation is started.
NextDrain ==
    \/ Startup
    \/ EnqueueControl
    \/ on_check
    \/ on_event
    \/ LoopExit
    \/ Return
    \/ RecvNone
    \/ DispatchHeartbeat
    \/ DispatchChunk
    \/ DispatchTerminate
    \/ DispatchUnknown
    \/ on_heartbeat
    \/ on_disown
    \/ Tick

DrainSpec == Init /\ [][NextDrain]_vars

\* Every callback and every case of the switch, with an orchestrator that
\* sends one message at a time.
NextSwitch ==
    \/ Startup
    \/ EnqueueNext
    \/ on_check
    \/ on_event
    \/ LoopExit
    \/ Return
    \/ RecvNone
    \/ DispatchHeartbeat
    \/ DispatchInvoke
    \/ DispatchChunk
    \/ DispatchChoke
    \/ DispatchTerminate
    \/ DispatchUnknown
    \/ on_heartbeat
    \/ on_disown
    \/ Tick
    \/ AppSink
    \/ AppRelease

SwitchSpec == Init /\ [][NextSwitch]_vars

\* ---------------------------------------------------------------- claims

\* The steps of a callback that is running: a drain pass goes on to its
\* return, and a callback returns to the loop.
DrainStep ==
    \/ RecvNone
    \/ DispatchHeartbeat
    \/ DispatchChunk
    \/ DispatchTerminate
    \/ DispatchUnknown
    \/ Return

\* ev::loop::loop: a running callback runs to its end, and every iteration
\* of the loop invokes each watcher that is ready in it, so that a timer
\* that keeps firing does not keep the prepare or the io watcher from
\* running.
FairDrainSpec ==
    DrainSpec /\ WF_vars(DrainStep) /\ SF_vars(on_check) /\ SF_vars(on_event)

\* m_loop.loop() returns when it finds, at the end of an iteration, that
\* unloop() was called.
FairExitSpec == FairDrainSpec /\ WF_vars(LoopExit)

RECURSIVE SumSent(_)
SumSent(cs) == IF cs = <<>> THEN 0 ELSE Head(cs).sent + SumSent(Tail(cs))

\* The step received a message from the channel and ran its case.
Dispatched == ndisp' = ndisp + 1

\* Call j of the step is made on an adapter on which close() or error() was
\* called before: in an earlier step (the adapter is closed), or earlier in
\* this step.
AfterClose(j) ==
    LET c == calls'[j]
    IN  \/ c.a \in DOMAIN adapters /\ adapters[c.a].state = "closed"
        \/ \E i \in 1..(j - 1) : /\ calls'[i].target = "up"
                                 /\ calls'[i].a = c.a
                                 /\ calls'[i].op \in {"close", "error"}

\* C1: once close() or error() has been called on an upstream adapter, every
\* later call of push, error or close on it fails with "the stream has been
\* closed", sends no message (what a step sends is what its calls sent), and
\* the adapter stays closed until it is destroyed.
C1_ClosedAdapterRejects ==
    [][ /\ \A j \in DOMAIN calls' :
              (calls'[j].target = "up" /\ AfterClose(j))
                  => /\ calls'[j].res = "closed"
                     /\ calls'[j].sent = 0
                     /\ adapters'[calls'[j].a].state \in {"closed", "dead"}
        /\ calls' # <<>> => Len(sent') = SumSent(calls')
        /\ \A a \in DOMAIN adapters :
              adapters[a].state = "closed" => adapters'[a].state \in {"closed", "dead"}
      ]_vars

\* The application called a sink that was closed and got the usage fault.
C1_Witness ==
    \E j \in DOMAIN calls : /\ calls[j].target = "up"
                            /\ calls[j].by = "app"
                            /\ calls[j].before = "closed"
                            /\ calls[j].res = "closed"

\* The step ran a case of the switch in which the sandbox or the downstream
\* of session sid threw (an invocation fault).
Faulted(sid) ==
    /\ Dispatched
    /\ cur'.sid = sid
    /\ \E j \in DOMAIN calls' : /\ calls'[j].target \in {"sandbox", "down"}
                                /\ calls'[j].res # "ok"

\* The step ran the invoke case and the sandbox returned a downstream.
InvokeSucceeded(sid) ==
    /\ Dispatched
    /\ cur'.type = "invoke"
    /\ cur'.sid = sid
    /\ \E j \in DOMAIN calls' : calls'[j].target = "sandbox" /\ calls'[j].res = "ok"

\* The step processed a terminal event of a session that is in the table: a
\* choke for it, or a fault of its downstream's push or close.
TerminalEvent(sid) ==
    /\ Dispatched
    /\ cur'.sid = sid
    /\ m_streams[sid] # 0
    /\ \/ cur'.type = "choke"
       \/ cur'.type = "chunk" /\ Faulted(sid)

\* C2: a session id is in the session table exactly from the step that
\* dispatches a successful invoke for it to the step that processes its
\* terminal event: the invoke's step leaves it in the table, the terminal
\* event's step leaves it out, and no other step changes whether it is in.
C2_TableTracksSessions ==
    [][\A sid \in Sessions :
          /\ InvokeSucceeded(sid) => m_streams'[sid] # 0
          /\ TerminalEvent(sid) => m_streams'[sid] = 0
          /\ ~InvokeSucceeded(sid) /\ ~TerminalEvent(sid)
                => (m_streams'[sid] = 0 <=> m_streams[sid] = 0)
      ]_vars

\* C3: when a choke is dispatched for a session id that is in the table, the
\* id is not in the table after the step, whether downstream close() threw
\* or not and whatever the application did with the sink before.
C3_ChokeRemoves ==
    [][(Dispatched /\ cur'.type = "choke" /\ m_streams[cur'.sid] # 0)
          => m_streams'[cur'.sid] = 0]_vars

\* C4: no fault of the application layer leaves the dispatch of the message
\* that caused it: process() is never left by an exception.
C4_NoFaultEscapes == m_loop # "crashed"

\* C5: dispatching a chunk or a choke whose session id is not in the table
\* sends nothing, calls nothing on any adapter, downstream or the sandbox,
\* raises no fault and leaves the table, the adapters and the watchdog as
\* they were.
C5_RoutingMissIsNoOp ==
    [][(Dispatched /\ cur'.type \in {"chunk", "choke"} /\ m_streams[cur'.sid] = 0)
          => /\ sent' = <<>>
             /\ calls' = <<>>
             /\ m_loop' = m_loop
             /\ UNCHANGED <<m_streams, adapters, m_disown_timer>>]_vars

\* A choke was dispatched for a session that had been invoked and is no
\* longer in the table, as a second choke after the first.
C5_Witness ==
    /\ cur.type = "choke"
    /\ m_streams[cur.sid] = 0
    /\ calls = <<>>
    /\ \E a \in DOMAIN adapters : adapters[a].id = cur.sid

\* What the worker itself sent in the step: sent' without the messages of
\* the application's calls, which come first in a case.
ByApp(c) == c.by = "app"
WorkerSent == SubSeq(sent', SumSent(SelectSeq(calls', ByApp)) + 1, Len(sent'))

\* The text of the fault the sandbox threw in the step.
SandboxFault ==
    LET j == CHOOSE j \in DOMAIN calls' : calls'[j].target = "sandbox"
    IN  FaultText(calls'[j].res)

\* C6: when the sandbox's invoke throws for session S, the worker sends
\* error(S, invocation_error, text) and then choke(S) and nothing else, S is
\* not in the table after the step, and it enters the table later only by a
\* successful invoke.
C6_FailedInvokeReports ==
    [][\A sid \in Sessions :
          /\ (cur'.type = "invoke" /\ Faulted(sid))
                => /\ WorkerSent = <<OutMsg("error", sid, "invocation_error", SandboxFault),
                                     OutMsg("choke", sid, "", "")>>
                   /\ m_streams'[sid] = 0
          /\ (m_streams[sid] = 0 /\ m_streams'[sid] # 0) => InvokeSucceeded(sid)
      ]_vars

\* C7: the step that handles an invocation fault of session S leaves the
\* table entry and the adapters of every other session as they were, and
\* every message it sends carries S.
C7_FaultIsolated ==
    [][\A sid \in Sessions :
          Faulted(sid)
             => /\ \A t \in Sessions \ {sid} : m_streams'[t] = m_streams[t]
                /\ \A a \in DOMAIN adapters :
                      adapters[a].id # sid => adapters'[a] = adapters[a]
                /\ \A i \in DOMAIN sent' : sent'[i].sid = sid
      ]_vars

\* A downstream threw and the fault was reported while another session was
\* in the table with its adapter open.
C7_Witness ==
    /\ m_loop = "running"
    /\ \E j \in DOMAIN calls : calls[j].target = "down" /\ calls[j].res # "ok"
    /\ \E i \in DOMAIN sent : sent[i].type = "error" /\ sent[i].code = "invocation_error"
    /\ \E t \in Sessions \ {cur.sid} :
          m_streams[t] # 0 /\ adapters[m_streams[t]].state = "open"

\* A drain pass ends: process() returns to on_event.
PassEnds == pc = "process" /\ pc' = "return"

\* C8: a pass that starts with more messages queued than the bulk size
\* dispatches exactly that many, ends with the rest still queued in order and
\* with the channel's event fed back to the loop; a pass that starts with
\* fewer, none arriving meanwhile, dispatches them all and returns at the
\* first empty receive without feeding an event. No pass dispatches more
\* than the bulk size.
C8_BoundedPass ==
    [][/\ Dispatched => ndisp' - passBase <= IoBulkSize
       /\ (pc = "process" /\ pc' = "process") => ndisp' - passBase < IoBulkSize
       /\ PassEnds =>
            /\ passQueued > IoBulkSize
                  => /\ Dispatched
                     /\ ndisp' - passBase = IoBulkSize
                     /\ Len(queue') >= passQueued - IoBulkSize
                     /\ queue' # <<>>
                     /\ Head(queue').ser = ndisp' + 1
                     /\ fed'
            /\ (passQueued < IoBulkSize /\ nsent' = passBase + passQueued)
                  => /\ ~Dispatched
                     /\ ndisp' - passBase = passQueued
                     /\ queue' = <<>>
                     /\ ~fed'
      ]_vars

\* A pass has just stopped at the bulk size with messages left and the
\* event fed.
C8_Witness ==
    /\ pc = "return"
    /\ passQueued > IoBulkSize
    /\ ndisp - passBase = IoBulkSize
    /\ queue # <<>>
    /\ fed

\* C9: the k-th dispatch is of the k-th message the channel was sent, the
\* channel changes only by a send at its tail or a receive at its head, and
\* every message sent is dispatched or still queued; and under the loop's
\* scheduling every message sent is dispatched unless the loop stops running.
C9_ExactlyOnceInOrder ==
    /\ [][/\ ndisp' # ndisp
             => /\ ndisp' = ndisp + 1
                /\ queue # <<>>
                /\ cur' = Head(queue)
                /\ cur'.ser = ndisp'
                /\ queue' = Tail(queue)
          /\ queue' # queue
             => \/ queue # <<>> /\ queue' = Tail(queue) /\ ndisp' = ndisp + 1
                \/ /\ Len(queue') = Len(queue) + 1
                   /\ SubSeq(queue', 1, Len(queue)) = queue
                   /\ queue'[Len(queue')].ser = nsent'
                   /\ nsent' = nsent + 1
          /\ nsent' = ndisp' + Len(queue')
          /\ \A i \in DOMAIN queue' : queue'[i].ser = ndisp' + i
         ]_vars
    /\ \A k \in 1..MaxMsgs : (nsent >= k) ~> (ndisp >= k \/ m_loop # "running")

\* A second pass, begun from the event fed by a pass that stopped at the bulk
\* size, has dispatched the last message sent.
C9_Witness ==
    /\ m_loop = "running"
    /\ pc = "process"
    /\ passBase = IoBulkSize
    /\ nsent > IoBulkSize
    /\ ndisp = nsent
    /\ cur.ser = nsent

\* C10: the step that dispatches a heartbeat leaves the disown timer active
\* with its deadline at the loop's time plus the heartbeat timeout, whatever
\* it was before; and the timer fires no sooner than one timeout after the
\* last heartbeat dispatched.
C10_HeartbeatResetsWatchdog ==
    [][/\ (Dispatched /\ cur'.type = "heartbeat")
             => m_disown_timer' = [active |-> TRUE, at |-> now + HeartbeatTimeout]
       /\ (m_disown_timer.active /\ ~m_disown_timer'.active /\ lastHb # -1)
             => now >= lastHb + HeartbeatTimeout
      ]_vars

\* A heartbeat was dispatched after time had passed on the timer started at
\* construction, and moved the deadline.
C10_Witness ==
    /\ cur.type = "heartbeat"
    /\ now >= 1
    /\ lastHb = now
    /\ m_disown_timer = [active |-> TRUE, at |-> now + HeartbeatTimeout]

\* The disown watchdog has fired and stopped the loop, and no heartbeat has
\* been dispatched since.
Disowned == m_loop \in {"unlooped", "exited"} /\ ~m_disown_timer.active

\* C11: the step in which the disown watchdog fires stops the event loop and
\* sends nothing, and no step after it sends anything: no suicide and no
\* other message.
C11_DisownIsSilent ==
    [][/\ (m_disown_timer.active /\ ~m_disown_timer'.active)
             => (m_loop' = "unlooped" /\ sent' = <<>>)
       /\ Disowned => sent' = <<>>
      ]_vars

\* C12: the step that dispatches a terminate message sends
\* suicide(normal, "per request") and nothing else and leaves the loop
\* stopped; and a stopped loop returns, so the worker exits.
C12_TerminateStops ==
    /\ [][(Dispatched /\ cur'.type = "terminate")
             => /\ sent' = <<OutMsg("suicide", 0, "normal", "per request")>>
                /\ m_loop' = "unlooped"]_vars
    /\ (m_loop = "unlooped") ~> (m_loop = "exited")

\* A terminate message was dispatched by a running worker: the suicide is
\* sent and the loop is stopped.
C12_Witness ==
    /\ cur.type = "terminate"
    /\ m_loop = "unlooped"
    /\ m_disown_timer.active
    /\ sent = <<OutMsg("suicide", 0, "normal", "per request")>>

\* C13: a fault while the manifest, the profile or the sandbox is loaded
\* makes the constructor send one suicide(abnormal, text of the fault) and
\* nothing else, with the disown timer not started and no message
\* dispatched; and from then on the worker takes no step: the loop is never
\* run.
C13_StartupFaultAborts ==
    [][/\ m_loop # "aborted"
       /\ m_loop' = "aborted"
             => /\ m_loop = "init"
                /\ \E outcome \in Outcomes \ {"ok"} :
                      sent' = <<OutMsg("suicide", 0, "abnormal", FaultText(outcome))>>
                /\ ~m_disown_timer'.active
                /\ ndisp' = 0
                /\ pc' = "idle"
      ]_vars

\* Construction failed with a std::exception and the suicide was sent.
C13_Witness ==
    /\ m_loop = "aborted"
    /\ sent = <<OutMsg("suicide", 0, "abnormal", "what")>>
    /\ ~m_disown_timer.active

\* C14: the step that dispatches a message of an unknown type takes the
\* whole message, payload parts included, off the channel, sends nothing,
\* calls nothing, leaves the session table, the adapters, the disown timer
\* and the loop as they were, and the pass goes on: to the next iteration, or
\* to its end at the bulk size with the event fed.
C14_UnknownDiscarded ==
    [][(Dispatched /\ cur'.type = "unknown")
          => /\ queue' = Tail(queue)
             /\ more' = 0
             /\ sent' = <<>>
             /\ calls' = <<>>
             /\ UNCHANGED <<m_streams, adapters, m_disown_timer, m_loop>>
             /\ IF counter > 1 THEN pc' = "process" ELSE pc' = "return" /\ fed'
      ]_vars

\* An unknown message with payload parts was dispatched and the pass is at
\* its next iteration.
C14_Witness ==
    /\ cur.type = "unknown"
    /\ parts > 0
    /\ more = 0
    /\ pc = "process"

\* C16: at the start of every iteration of the drain loop no part of the
\* message received before is left unread, whatever its type was:
\* !m_channel.more() holds.
C16_NoPartLeftOver == (pc = "process") => (more = 0)

\* The pass is at its next iteration after a message with two payload parts
\* was dispatched.
C16_Witness ==
    /\ pc = "process"
    /\ cur.type \in {"invoke", "chunk"}
    /\ parts = 2
    /\ more = 0

\* C17: an entry enters the session table only in the step that dispatches
\* an invoke for which the sandbox returned a downstream; an entry leaves it
\* only in the step that dispatches a choke for it or a chunk for it whose
\* downstream push threw; an entry that stays is not replaced; and the steps
\* that dispatch heartbeat, terminate and unknown messages, and every step
\* that dispatches nothing (heartbeat emitter, watchdog, readiness
\* callbacks, the application's calls on a sink), leave the table as it is.
C17_TableFrame ==
    [][/\ \A sid \in Sessions :
             /\ (m_streams[sid] = 0 /\ m_streams'[sid] # 0) => InvokeSucceeded(sid)
             /\ (m_streams[sid] # 0 /\ m_streams'[sid] = 0) => TerminalEvent(sid)
             /\ (m_streams[sid] # 0 /\ m_streams'[sid] # 0) => m_streams'[sid] = m_streams[sid]
       /\ (~Dispatched \/ cur'.type \in {"heartbeat", "terminate", "unknown"})
             => UNCHANGED m_streams
      ]_vars

\* The application has called its sink from a callback of its own, with the
\* sink's session in the table.
C17_Witness ==
    /\ cur = NoMsg
    /\ \E j \in DOMAIN calls :
          /\ calls[j].by = "app"
          /\ m_streams[calls[j].sid] = calls[j].a

\* The pushes the step made on downstreams.
IsDownPush(c) == c.target = "down" /\ c.op = "push"
DownPushes == SelectSeq(calls', IsDownPush)

\* C15: the step that dispatches a chunk for a session in the table, the
\* message at the head of the channel, makes exactly one push, on the
\* downstream of the io pair the table holds for that session, with the
\* bytes of that message; when the push returns, the worker sends nothing
\* and the session's entry stays. No other step pushes on a downstream.
C15_ChunkForwarded ==
    [][IF Dispatched /\ cur'.type = "chunk" /\ m_streams[cur'.sid] # 0
       THEN /\ cur' = Head(queue)
            /\ Len(DownPushes) = 1
            /\ DownPushes[1].a = m_streams[cur'.sid]
            /\ adapters[DownPushes[1].a].id = cur'.sid
            /\ DownPushes[1].data = cur'.ser
            /\ DownPushes[1].res = "ok"
                  => /\ WorkerSent = <<>>
                     /\ m_streams'[cur'.sid] = m_streams[cur'.sid]
       ELSE DownPushes = <<>>
      ]_vars

\* The third message of the run, a chunk, was forwarded to the downstream of
\* its session, which stays in the table.
C15_Witness ==
    /\ cur.type = "chunk"
    /\ cur.ser = 3
    /\ m_streams[cur.sid] # 0
    /\ \E j \in DOMAIN calls :
          /\ calls[j].target = "down"
          /\ calls[j].a = m_streams[cur.sid]
          /\ calls[j].data = 3
          /\ calls[j].res = "ok"

\* Adapter a is destroyed in the step.
Destroyed(a) ==
    /\ adapters'[a].state = "dead"
    /\ a \in DOMAIN adapters => adapters[a].state # "dead"

\* The calls the destructor of adapter a made in the step.
DtorCalls(a) == {j \in DOMAIN calls' : calls'[j].by = "dtor" /\ calls'[j].a = a}

\* Adapter a was closed in the step by a call other than its destructor's.
ClosedInStep(a) ==
    \E j \in DOMAIN calls' :
        /\ calls'[j].target = "up" /\ calls'[j].a = a /\ calls'[j].by # "dtor"
        /\ calls'[j].op \in {"close", "error"} /\ calls'[j].res = "ok"

\* Adapter a was open when its destructor ran.
OpenAtDestruction(a) ==
    /\ a \in DOMAIN adapters => adapters[a].state = "open"
    /\ ~ClosedInStep(a)

\* The choke messages the step sent for a session.
Chokes(sid) ==
    Cardinality({i \in DOMAIN sent' : sent'[i].type = "choke" /\ sent'[i].sid = sid})

\* C18: when an adapter is destroyed while open, its destructor makes one
\* close() call, which returns and sends the one choke the step sends for
\* the session, as the step's last message; when it is destroyed closed, the
\* destructor calls nothing and sends nothing. Destructors run for destroyed
\* adapters only, and none of their calls throws.
C18_DestructorCloses ==
    [][/\ \A a \in DOMAIN adapters' :
             Destroyed(a)
                => IF OpenAtDestruction(a)
                   THEN /\ Cardinality(DtorCalls(a)) = 1
                        /\ Chokes(adapters'[a].id) = 1
                        /\ sent' # <<>>
                        /\ sent'[Len(sent')] = OutMsg("choke", adapters'[a].id, "", "")
                   ELSE /\ DtorCalls(a) = {}
                        /\ Chokes(adapters'[a].id) = IF ClosedInStep(a) THEN 1 ELSE 0
       /\ \A j \in DOMAIN calls' :
             calls'[j].by = "dtor"
                => /\ Destroyed(calls'[j].a)
                   /\ calls'[j].op = "close"
                   /\ calls'[j].before = "open"
                   /\ calls'[j].res = "ok"
                   /\ calls'[j].sent = 1
      ]_vars

\* The table's entry was erased by a choke while the application held no
\* reference to the open adapter: the destructor has closed it.
C18_Witness ==
    /\ cur.type = "choke"
    /\ m_streams[cur.sid] = 0
    /\ \E j \in DOMAIN calls :
          /\ calls[j].by = "dtor"
          /\ calls[j].sid = cur.sid
          /\ adapters[calls[j].a].state = "dead"
    /\ sent = <<OutMsg("choke", cur.sid, "", "")>>

\* The loop was stopped by a terminate message, which sent the suicide: the
\* disown timer did not fire, and either the terminate was dispatched by the
\* last step or no heartbeat was ever dispatched (a heartbeat dispatched
\* after the watchdog fired restarts the timer).
Terminated ==
    /\ m_loop \in {"unlooped", "exited"}
    /\ m_disown_timer.active
    /\ cur.type = "terminate" \/ lastHb = -1

\* C19: once a terminate message has made the worker send its suicide, no
\* step receives a message from the channel and no step sends one: what is
\* queued behind the terminate stays there, and no second suicide is sent.
C19_NothingAfterTerminate ==
    [][Terminated => (ndisp' = ndisp /\ sent' = <<>>)]_vars

\* The types of the messages the step sent for a session, in order.
TypesSent(sid) ==
    LET OfSession(m) == m.sid = sid
        M == SelectSeq(sent', OfSession)
    IN  [i \in DOMAIN M |-> M[i].type]

\* Zero or more chunks, then nothing, a choke, or an error and a choke.
StreamShape(types) ==
    \E k \in 0..Len(types) :
        /\ \A i \in 1..k : types[i] = "chunk"
        /\ SubSeq(types, k + 1, Len(types)) \in {<<>>, <<"choke">>, <<"error", "choke">>}

\* The adapters made for a session id, before and after the step.
AdaptersOf(sid) == {a \in DOMAIN adapters : adapters[a].id = sid}
AdaptersOfNext(sid) == {a \in DOMAIN adapters' : adapters'[a].id = sid}

\* C20: with every session id invoked at most once, the messages sent for a
\* session over the run are chunks, then possibly an error, then at most one
\* choke, the error directly followed by the choke and nothing after the
\* choke. Step by step: nothing is sent for a session that has no adapter
\* or whose adapter is closed or destroyed; what a step sends for a session
\* whose adapter is open is chunks, then nothing, a choke or an error and a
\* choke, and the adapter is closed or destroyed after the step exactly when
\* the choke was sent; and an error is followed at once by its choke on the
\* channel.
C20_SessionStreamShape ==
    [][/\ \A sid \in Sessions :
             Cardinality(AdaptersOfNext(sid)) <= 1
                => LET types == TypesSent(sid)
                   IN  /\ AdaptersOfNext(sid) = {} => types = <<>>
                       /\ \A a \in AdaptersOf(sid) :
                             adapters[a].state # "open"
                                => types = <<>> /\ adapters'[a].state # "open"
                       /\ \A a \in AdaptersOfNext(sid) :
                             (a \in DOMAIN adapters => adapters[a].state = "open")
                                => /\ StreamShape(types)
                                   /\ adapters'[a].state # "open"
                                         <=> (types # <<>> /\ types[Len(types)] = "choke")
       /\ \A i \in DOMAIN sent' :
             sent'[i].type = "error"
                => /\ i < Len(sent')
                   /\ sent'[i + 1] = OutMsg("choke", sent'[i].sid, "", "")
      ]_vars

\* One step has sent a chunk, an error and the choke for a session: the
\* application pushed inside a sandbox call that then threw.
C20_Witness ==
    /\ Len(sent) = 3
    /\ sent[1].type = "chunk" /\ sent[2].type = "error" /\ sent[3].type = "choke"
    /\ sent[1].sid = sent[3].sid /\ sent[2].sid = sent[3].sid
    /\ Cardinality({a \in DOMAIN adapters : adapters[a].id = sent[1].sid}) = 1

====
